---- MODULE Spec2Model ----
(***************************************************************************)
(* A model of the rde streaming pipeline:                                  *)
(*   - the runner of bins/rde-cli (channel wiring, task supervision,       *)
(*     Ctrl-C handling),                                                   *)
(*   - the sources, transforms and sinks as tasks connected by bounded     *)
(*     tokio mpsc channels,                                                *)
(*   - the Iceberg sink's commit protocol against an object store.         *)
(* Spec     is the pipeline wired by the runner.                           *)
(* SpecSink is successive runs of IcebergSink against one table.           *)
(* SpecStartup is main from the parsed YAML spec to the spawned tasks.     *)
(* SpecTopic is KafkaPipelineSource with its consumer task and its         *)
(* DynamicSchemaManager; SpecMerge is DynamicSchemaManager::merge_schemas. *)
(* SpecPromote and SpecMapping are promote_field_type and merge_schemas   *)
(* of TopicMappingManager, SpecConvert is IcebergSink's schema conversion, *)
(* SpecEvolution is the Batch arm of SchemaEvolution::run.                 *)
(***************************************************************************)
EXTENDS Integers, Sequences, FiniteSets, TLC

\* ---------------------------------------------------------------- bounds
MaxTransforms == 1
MaxCapacity == 2
MaxBatches == 2
MaxFiles == 1
MaxWindow == 2
MaxRuns == 2
MaxMessages == 3
MaxRows == 1
MaxFailures == 1
MaxFields == 1
MaxOperators == 2
MaxRecords == 2

\* ------------------------------------------------------------- vocabulary
TransformKinds ==
  {"passthrough", "schema_evolution", "json_flatten", "partition",
   "sql_transform", "clean_data"}
SourceKinds == {"file_csv", "kafka"}
SinkKinds == {"stdout_pretty", "parquet_dir", "iceberg"}

\* rde_core::Message.  A Batch carries the ids of the source batches it was
\* computed from and the transforms that rewrote it.
Batch(ids, by) == [type |-> "Batch", ids |-> ids, by |-> by]
Watermark(t) == [type |-> "Watermark", ids |-> <<t>>, by |-> <<>>]
Eos == [type |-> "Eos", ids |-> <<>>, by |-> <<>>]

\* A pending tx.send(msg).await; clear = batch_buffer.clear() follows it.
Pending(m, c) == [msg |-> m, clear |-> c]

VARIABLES
  \* pipeline configuration (the YAML spec and the CLI arguments)
  kinds, capacity, sourceKind, sinkKind, numFiles, windowSize,
  \* channels
  chan, sent, rxAlive, txAlive,
  \* operator tasks
  status, outq, batchBuffer,
  \* source position
  srcPhase, srcFile, srcOpen, nextId, srcSawCancel,
  \* sink
  received,
  \* runner: the token, main's position, the Ctrl-C seen, main's result
  cancelled, runner, interrupted, mainResult

VARIABLES
  \* the object store: metadata.json of the table (<<>> when absent, else
  \* <<document>>) and the data files and manifests, path -> content
  storeMetadata, objects,
  \* IcebergSink fields
  table_metadata, current_snapshot_id, data_files,
  \* IcebergSink::run
  sinkPc, batch_count, written, lastCommit, commitBefore,
  \* history of the run: metadata.json as the run found it, the last event
  \* its loop handled, the data files written from batches that carried one
  \* field more than the sink's schema
  openedWith, lastEvent, widened,
  \* environment of the sink: uuids drawn, runs started, messages delivered
  \* and store requests failed, over all runs
  uuidNext, runs, delivered, failures

VARIABLES
  \* PipelineSpec as parsed from the YAML file
  sources, transforms, sinks,
  \* main before the tasks run: its position, how it ended if it ended
  \* there, and the number of tasks it has spawned
  startPc, startResult, spawned

VARIABLES
  \* DynamicSchemaManager fields
  auto_infer, configured_schema, current_schema,
  \* the consumer task of KafkaSource::stream: messages taken from the
  \* broker, its channel to the source, whether it still runs
  consumed, stream, consumerAlive,
  \* KafkaPipelineSource::run: the value it took last, the result of
  \* parse_json_to_batch_dynamic for it, the task's status
  value, batch, topicStatus,
  \* the source's cancellation token and the Receiver of its tx
  topicCancelled, downOpen,
  \* history: what each message the consumer task took was ("json", "bad",
  \* "none" or "error", by offset), the messages sent on tx
  topicLog, emitted,
  \* the result of DynamicSchemaManager::merge_schemas
  merged

VARIABLES
  \* TopicMappingManager::merge_schemas: self.current_schema, its argument
  \* and its result
  mapping_current_schema, new_schema, merged_schema,
  \* TopicMappingManager::promote_field_type: its arguments and its result
  existing_type, new_type, promoted_type,
  \* IcebergSink: self.schema and the result of
  \* convert_arrow_schema_to_iceberg
  sink_schema, iceberg_schema,
  \* SchemaEvolution fields: current_schema, auto_infer, strict_mode
  evolution_schema, evolution_auto_infer, strict_mode

pipeVars ==
  <<kinds, capacity, sourceKind, sinkKind, numFiles, windowSize,
    chan, sent, rxAlive, txAlive, status, outq, batchBuffer,
    srcPhase, srcFile, srcOpen, nextId, srcSawCancel, received,
    cancelled, runner, interrupted, mainResult>>

sinkVars ==
  <<storeMetadata, objects, table_metadata, current_snapshot_id, data_files,
    sinkPc, batch_count, written, lastCommit, commitBefore,
    openedWith, lastEvent, widened,
    uuidNext, runs, delivered, failures>>

startVars == <<sources, transforms, sinks, startPc, startResult, spawned>>

topicVars ==
  <<auto_infer, configured_schema, current_schema, consumed, stream,
    consumerAlive, value, batch, topicStatus, topicCancelled, downOpen,
    topicLog, emitted, merged>>

schemaVars ==
  <<mapping_current_schema, new_schema, merged_schema,
    existing_type, new_type, promoted_type,
    sink_schema, iceberg_schema,
    evolution_schema, evolution_auto_infer, strict_mode>>

vars == <<pipeVars, sinkVars, startVars, topicVars, schemaVars>>

NumTransforms == Len(kinds)
SinkOp == NumTransforms + 1
Ops == 0..SinkOp
Producers == 0..NumTransforms
Chans == 1..SinkOp

SeqsUpTo(S, n) == UNION {[1..k -> S] : k \in 0..n}

IsPrefix(s, t) == Len(s) <= Len(t) /\ \A p \in 1..Len(s) : s[p] = t[p]

\* ------------------------------------------------------------- transforms
\* Each *Out operator is what one iteration of the transform's receive loop
\* hands to tx.send, in order; failed = the iteration returned Err through ?.
Outcome(out, buf, failed) == [out |-> out, buf |-> buf, failed |-> failed]

PassthroughOutBatchesOnly(msg) ==
  IF msg.type = "Batch" THEN <<Pending(msg, FALSE)>> ELSE <<>>

PassthroughOut(msg) == <<Pending(msg, FALSE)>>

SchemaEvolutionOut(msg) == <<Pending(msg, FALSE)>>

RewriteOut(kind, msg) ==
  IF msg.type = "Batch"
    THEN <<Pending(Batch(msg.ids, Append(msg.by, kind)), FALSE)>>
    ELSE <<Pending(msg, FALSE)>>

JsonFlattenOut(msg) == RewriteOut("json_flatten", msg)

PartitionOut(msg) == RewriteOut("partition", msg)

CleanDataOut(msg) == RewriteOut("clean_data", msg)

\* SqlTransform::combine_batches: batches[0].clone() in every non-empty case.
combine_batches(batches) ==
  IF batches = <<>> THEN Batch(<<>>, <<>>) ELSE batches[1]

\* SqlTransform::execute_sql_query on the combined batch.
execute_sql_query(b) == Batch(b.ids, Append(b.by, "sql_transform"))

SqlBufferAfterNoPush(msg, buf) == buf

SqlBufferAfter(msg, buf) ==
  IF msg.type = "Batch" THEN Append(buf, msg) ELSE buf

SqlTransformOutEosFirst(msg, buf, w) ==
  LET b == SqlBufferAfter(msg, buf)
      res == execute_sql_query(combine_batches(b))
  IN CASE msg.type = "Batch" ->
            IF Len(b) >= w THEN <<Pending(res, TRUE)>> ELSE <<>>
       [] msg.type = "Watermark" ->
            IF b # <<>> THEN <<Pending(res, TRUE), Pending(msg, FALSE)>>
                        ELSE <<Pending(msg, FALSE)>>
       [] OTHER ->
            IF b # <<>> THEN <<Pending(msg, FALSE), Pending(res, FALSE)>>
                        ELSE <<Pending(msg, FALSE)>>

SqlTransformOut(msg, buf, w) ==
  LET b == SqlBufferAfter(msg, buf)
      res == execute_sql_query(combine_batches(b))
  IN CASE msg.type = "Batch" ->
            IF Len(b) >= w THEN <<Pending(res, TRUE)>> ELSE <<>>
       [] msg.type = "Watermark" ->
            IF b # <<>> THEN <<Pending(res, TRUE), Pending(msg, FALSE)>>
                        ELSE <<Pending(msg, FALSE)>>
       [] OTHER ->
            IF b # <<>> THEN <<Pending(res, FALSE), Pending(msg, FALSE)>>
                        ELSE <<Pending(msg, FALSE)>>

\* Whether the iteration runs the SQL engine (the only fallible call of a
\* transform's loop body).
SqlRunsQuery(msg, buf, w) ==
  LET b == SqlBufferAfter(msg, buf)
  IN IF msg.type = "Batch" THEN Len(b) >= w ELSE b # <<>>

TransformStep(kind, msg, buf, w, engineOk) ==
  CASE kind = "passthrough" -> Outcome(PassthroughOut(msg), buf, FALSE)
    [] kind = "schema_evolution" -> Outcome(SchemaEvolutionOut(msg), buf, FALSE)
    [] kind = "json_flatten" -> Outcome(JsonFlattenOut(msg), buf, FALSE)
    [] kind = "partition" -> Outcome(PartitionOut(msg), buf, FALSE)
    [] kind = "clean_data" -> Outcome(CleanDataOut(msg), buf, FALSE)
    [] OTHER ->
         IF SqlRunsQuery(msg, buf, w) /\ ~engineOk
           THEN Outcome(<<>>, SqlBufferAfter(msg, buf), TRUE)
           ELSE Outcome(SqlTransformOut(msg, buf, w),
                        SqlBufferAfter(msg, buf), FALSE)

\* ---------------------------------------------------------------- schemas
\* A schema is the sequence of its field names.
\* The schema main infers up front and hands to the source, the first
\* transform and, through Operator::schema of each transform, the sink: for
\* a CSV source the one inferred from the files, for a Kafka source without
\* a stored table to load it from, Schema::empty().
CsvSchema == <<"id", "amount">>
RecordSchema == <<"id", "amount">>

InferredSchema(source) == IF source = "file_csv" THEN CsvSchema ELSE <<>>

\* The schema of the batches the source builds: CsvSource reads with the
\* schema it was given; KafkaPipelineSource builds each batch with the
\* schema its DynamicSchemaManager inferred from the record.
SourceBatchSchema(source) ==
  IF source = "file_csv" THEN CsvSchema ELSE RecordSchema

\* Operator::schema of a transform: the schema it was constructed with.
DeclaredSchema(kind, input) == input

\* The schema of the batches a transform sends for batches of schema input.
\* SqlTransform sends the schema of its query's result, here a query that
\* selects every column.
OutputSchema(kind, input) ==
  CASE kind = "partition" -> input \o <<"partition_key", "partition_date">>
    [] kind = "json_flatten" -> <<"flattened_data">>
    [] OTHER -> input

\* main's loop over spec.transforms: current_schema = transform.schema().
RECURSIVE FinalSchema(_, _)
FinalSchema(ks, schema) ==
  IF ks = <<>> THEN schema
  ELSE FinalSchema(Tail(ks), DeclaredSchema(Head(ks), schema))

\* The schema of a batch that the transforms of by rewrote in turn.
RECURSIVE RewrittenSchema(_, _)
RewrittenSchema(by, schema) ==
  IF by = <<>> THEN schema
  ELSE RewrittenSchema(Tail(by), OutputSchema(Head(by), schema))

\* The schema the sink was constructed with, and the schema of a batch.
SinkSchema == FinalSchema(kinds, InferredSchema(sourceKind))
BatchSchema(msg) == RewrittenSchema(msg.by, SourceBatchSchema(sourceKind))

\* ------------------------------------------------------------------- Init
PipeInit ==
  /\ kinds \in SeqsUpTo(TransformKinds, MaxTransforms)
  /\ capacity \in 1..MaxCapacity
  /\ sourceKind \in SourceKinds
  /\ sinkKind \in SinkKinds
  \* numFiles is read by CsvSource only, windowSize by SqlTransform only
  /\ numFiles \in (IF sourceKind = "file_csv" THEN 1..MaxFiles ELSE {1})
  /\ windowSize \in (IF \E i \in 1..Len(kinds) : kinds[i] = "sql_transform"
                       THEN 1..MaxWindow ELSE {1})
  /\ chan = [c \in 1..(Len(kinds) + 1) |-> <<>>]
  /\ sent = [c \in 1..(Len(kinds) + 1) |-> <<>>]
  /\ rxAlive = [c \in 1..(Len(kinds) + 1) |-> TRUE]
  /\ txAlive = [c \in 1..(Len(kinds) + 1) |-> TRUE]
  /\ status = [i \in 0..(Len(kinds) + 1) |-> "running"]
  /\ outq = [i \in 0..Len(kinds) |-> <<>>]
  /\ batchBuffer = [i \in 1..Len(kinds) |-> <<>>]
  /\ srcPhase = "read"
  /\ srcFile = 1
  /\ srcOpen = FALSE
  /\ nextId = 1
  /\ srcSawCancel = FALSE
  /\ received = <<>>
  /\ cancelled = FALSE
  /\ runner = "waiting"
  /\ interrupted = FALSE
  /\ mainResult = "none"

\* The sink variables while the pipeline of Spec runs, and the pipeline
\* variables while the sink of SpecSink runs: not used, held constant.
SinkIdle ==
  /\ storeMetadata = <<>> /\ objects = <<>>
  /\ table_metadata = <<>> /\ current_snapshot_id = 1 /\ data_files = <<>>
  /\ sinkPc = "off" /\ batch_count = 0 /\ written = {}
  /\ lastCommit = "none" /\ commitBefore = <<>>
  /\ openedWith = <<>> /\ lastEvent = "none" /\ widened = {}
  /\ uuidNext = 1 /\ runs = 1 /\ delivered = 0 /\ failures = 0

PipeIdle ==
  /\ kinds = <<>> /\ capacity = 1
  /\ sourceKind = "file_csv" /\ sinkKind = "iceberg"
  /\ numFiles = 1 /\ windowSize = 1
  /\ chan = [c \in {1} |-> <<>>] /\ sent = [c \in {1} |-> <<>>]
  /\ rxAlive = [c \in {1} |-> TRUE] /\ txAlive = [c \in {1} |-> TRUE]
  /\ status = [i \in 0..1 |-> "running"]
  /\ outq = [i \in {0} |-> <<>>] /\ batchBuffer = <<>>
  /\ srcPhase = "read" /\ srcFile = 1 /\ srcOpen = FALSE /\ nextId = 1
  /\ srcSawCancel = FALSE /\ received = <<>>
  /\ cancelled = FALSE /\ runner = "waiting" /\ interrupted = FALSE
  /\ mainResult = "none"

\* main has built one operator per element it used and spawned their tasks.
StartDone ==
  /\ sources = <<sourceKind>> /\ transforms = kinds /\ sinks = <<sinkKind>>
  /\ startPc = "spawned" /\ startResult = "none"
  /\ spawned = Len(kinds) + 2

\* serde_json::Value, by the JSON type of a value; an object by the JSON
\* types of its members "id" and "v" ("absent" for a member it lacks).
NullValue == [kind |-> "null", id |-> "absent", v |-> "absent"]
Object(id, v) == [kind |-> "object", id |-> id, v |-> v]
IdKinds == {"absent", "int", "float"}
VKinds == {"absent", "null", "bool", "string", "array", "object"}
Objects == {Object(id, v) : id \in IdKinds, v \in VKinds}

\* Result<Option<RecordBatch>> of parse_json_to_batch_dynamic: "none" is
\* Ok(None), "batch" is Ok(Some(batch)) with the batch's schema and its one
\* row, "err" is Err.
NoResult == [result |-> "none", schema |-> <<>>, row |-> <<>>]
OkBatch(schema, row) == [result |-> "batch", schema |-> schema, row |-> row]
ErrResult == [result |-> "err", schema |-> <<>>, row |-> <<>>]

\* No KafkaPipelineSource has been constructed.
TopicIdle ==
  /\ auto_infer = TRUE /\ configured_schema = <<>> /\ current_schema = <<>>
  /\ consumed = 0 /\ stream = <<>> /\ consumerAlive = FALSE
  /\ value = NullValue /\ batch = NoResult /\ topicStatus = "off"
  /\ topicCancelled = FALSE /\ downOpen = FALSE
  /\ topicLog = <<>> /\ emitted = <<>> /\ merged = <<>>

\* No TopicMappingManager, no SchemaEvolution and no schema conversion in
\* progress.
SchemaIdle ==
  /\ mapping_current_schema = <<>> /\ new_schema = <<>> /\ merged_schema = <<>>
  /\ existing_type = "Utf8" /\ new_type = "Utf8" /\ promoted_type = <<>>
  /\ sink_schema = <<>> /\ iceberg_schema = <<>>
  /\ evolution_schema = <<>> /\ evolution_auto_infer = FALSE
  /\ strict_mode = FALSE

Init == PipeInit /\ SinkIdle /\ StartDone /\ TopicIdle /\ SchemaIdle

\* ------------------------------------------------------- task termination
\* A task that returns drops its Sender and its Receiver; the messages still
\* buffered in a channel whose Receiver is dropped are destroyed.
StatusAfter(i, result) == [status EXCEPT ![i] = result]

TxAfterReturnSenderKept(i) == txAlive

TxAfterReturn(i) ==
  IF i <= NumTransforms THEN [txAlive EXCEPT ![i + 1] = FALSE] ELSE txAlive

RxAfterReturn(i) ==
  IF i >= 1 THEN [rxAlive EXCEPT ![i] = FALSE] ELSE rxAlive

ChanAfterReturn(i, ch) ==
  IF i >= 1 THEN [ch EXCEPT ![i] = <<>>] ELSE ch

\* mpsc::channel(args.channel_capacity): a send completes only while the
\* channel holds fewer messages than its capacity.
HasRoomAlways(c) == TRUE

HasRoom(c) == Len(chan[c]) < capacity

\* ---------------------------------------------------------------- sources
SourceToEos ==
  /\ outq' = [outq EXCEPT ![0] = <<Pending(Eos, FALSE)>>]
  /\ srcPhase' = "eos"

SourceReturn(result) ==
  /\ status' = StatusAfter(0, result)
  /\ txAlive' = TxAfterReturn(0)
  /\ outq' = [outq EXCEPT ![0] = <<>>]

\* CsvSource::run, one pass of the read loop up to its tx.send.  A cancelled
\* token breaks the inner loop and then the loop over the files; a reader
\* that reports a read error is logged and polled again (no state change).
CsvSourceStep ==
  /\ UNCHANGED <<sinkVars, startVars, topicVars, schemaVars>>
  /\ sourceKind = "file_csv"
  /\ status[0] = "running" /\ srcPhase = "read" /\ outq[0] = <<>>
  /\ IF cancelled \/ srcFile > numFiles
       THEN /\ SourceToEos
            /\ srcSawCancel' = (srcFile <= numFiles)
            /\ UNCHANGED <<status, txAlive, srcFile, srcOpen, nextId>>
       ELSE \E r \in {"batch", "none", "open_err"} :
              CASE r = "batch" ->
                     /\ nextId <= MaxBatches
                     /\ outq' = [outq EXCEPT
                                   ![0] = <<Pending(Batch(<<nextId>>, <<>>), FALSE)>>]
                     /\ nextId' = nextId + 1
                     /\ srcOpen' = TRUE
                     /\ UNCHANGED <<status, txAlive, srcPhase, srcFile,
                                    srcSawCancel>>
                [] r = "none" ->
                     /\ srcFile' = srcFile + 1
                     /\ srcOpen' = FALSE
                     /\ UNCHANGED <<status, txAlive, outq, srcPhase, nextId,
                                    srcSawCancel>>
                [] OTHER ->
                     /\ ~srcOpen
                     /\ SourceReturn("err")
                     /\ UNCHANGED <<srcPhase, srcFile, srcOpen, nextId,
                                    srcSawCancel>>
  /\ UNCHANGED <<kinds, capacity, sourceKind, sinkKind, numFiles, windowSize,
                 chan, sent, rxAlive, batchBuffer, received,
                 cancelled, runner, interrupted, mainResult>>

\* KafkaPipelineSource::run, one value taken from the stream up to its
\* tx.send.  The token is looked at only after a value has arrived.  A JSON
\* null yields no batch; a value no batch can be built from returns Err.
KafkaSourceStep ==
  /\ UNCHANGED <<sinkVars, startVars, topicVars, schemaVars>>
  /\ sourceKind = "kafka"
  /\ status[0] = "running" /\ srcPhase = "read" /\ outq[0] = <<>>
  /\ nextId <= MaxBatches
  /\ nextId' = nextId + 1
  /\ IF cancelled
       THEN /\ SourceToEos
            /\ srcSawCancel' = TRUE
            /\ UNCHANGED <<status, txAlive>>
       ELSE \E rec \in {"object", "null", "bad"} :
              CASE rec = "object" ->
                     /\ outq' = [outq EXCEPT
                                   ![0] = <<Pending(Batch(<<nextId>>, <<>>), FALSE)>>]
                     /\ UNCHANGED <<status, txAlive, srcPhase, srcSawCancel>>
                [] rec = "null" ->
                     UNCHANGED <<status, txAlive, outq, srcPhase, srcSawCancel>>
                [] OTHER ->
                     /\ SourceReturn("err")
                     /\ UNCHANGED <<srcPhase, srcSawCancel>>
  /\ UNCHANGED <<kinds, capacity, sourceKind, sinkKind, numFiles, windowSize,
                 chan, sent, rxAlive, batchBuffer, srcFile, srcOpen, received,
                 cancelled, runner, interrupted, mainResult>>

\* The source's tx.send(..).await: suspended while the channel is full, an
\* error once the Receiver is gone.  CsvSource breaks the inner loop on a
\* failed Batch send and goes on with the next file; KafkaPipelineSource
\* breaks out to its final send.  Both send Eos best-effort and return Ok.
SourceSend ==
  /\ UNCHANGED <<sinkVars, startVars, topicVars, schemaVars>>
  /\ status[0] = "running" /\ outq[0] # <<>>
  /\ IF ~rxAlive[1]
       THEN /\ IF srcPhase = "eos"
                 THEN /\ SourceReturn("ok")
                      /\ UNCHANGED <<srcPhase, srcFile, srcOpen>>
                 ELSE IF sourceKind = "file_csv"
                   THEN /\ outq' = [outq EXCEPT ![0] = <<>>]
                        /\ srcFile' = srcFile + 1
                        /\ srcOpen' = FALSE
                        /\ UNCHANGED <<status, txAlive, srcPhase>>
                   ELSE /\ SourceToEos
                        /\ UNCHANGED <<status, txAlive, srcFile, srcOpen>>
            /\ UNCHANGED <<chan, sent>>
       ELSE /\ HasRoom(1)
            /\ chan' = [chan EXCEPT ![1] = Append(@, Head(outq[0]).msg)]
            /\ sent' = [sent EXCEPT ![1] = Append(@, Head(outq[0]).msg)]
            /\ IF srcPhase = "eos"
                 THEN SourceReturn("ok")
                 ELSE /\ outq' = [outq EXCEPT ![0] = Tail(@)]
                      /\ UNCHANGED <<status, txAlive>>
            /\ UNCHANGED <<srcPhase, srcFile, srcOpen>>
  /\ UNCHANGED <<kinds, capacity, sourceKind, sinkKind, numFiles, windowSize,
                 rxAlive, batchBuffer, nextId, srcSawCancel, received,
                 cancelled, runner, interrupted, mainResult>>

\* ------------------------------------------------------- transform tasks
TransformReturn(i, result) ==
  /\ status' = StatusAfter(i, result)
  /\ txAlive' = TxAfterReturn(i)
  /\ rxAlive' = RxAfterReturn(i)
  /\ outq' = [outq EXCEPT ![i] = <<>>]

\* rx.recv().await of a transform and the loop body up to its first send.
\* recv yields None once the channel is empty and its Sender dropped.
TransformRecv(i) ==
  /\ UNCHANGED <<sinkVars, startVars, topicVars, schemaVars>>
  /\ status[i] = "running" /\ outq[i] = <<>>
  /\ IF chan[i] = <<>>
       THEN /\ ~txAlive[i]
            /\ TransformReturn(i, "ok")
            /\ UNCHANGED <<chan, batchBuffer>>
       ELSE \E engineOk \in BOOLEAN :
              LET step == TransformStep(kinds[i], Head(chan[i]),
                                        batchBuffer[i], windowSize, engineOk)
              IN IF step.failed
                   THEN /\ TransformReturn(i, "err")
                        /\ chan' = ChanAfterReturn(i, chan)
                        /\ batchBuffer' = [batchBuffer EXCEPT ![i] = step.buf]
                   ELSE /\ chan' = [chan EXCEPT ![i] = Tail(@)]
                        /\ outq' = [outq EXCEPT ![i] = step.out]
                        /\ batchBuffer' = [batchBuffer EXCEPT ![i] = step.buf]
                        /\ UNCHANGED <<status, txAlive, rxAlive>>
  /\ UNCHANGED <<kinds, capacity, sourceKind, sinkKind, numFiles, windowSize,
                 sent, srcPhase, srcFile, srcOpen, nextId, srcSawCancel,
                 received, cancelled, runner, interrupted, mainResult>>

\* tx.send(..).await of a transform; is_err() breaks the loop and the
\* transform returns Ok.
TransformSend(i) ==
  /\ UNCHANGED <<sinkVars, startVars, topicVars, schemaVars>>
  /\ status[i] = "running" /\ outq[i] # <<>>
  /\ IF ~rxAlive[i + 1]
       THEN /\ TransformReturn(i, "ok")
            /\ chan' = ChanAfterReturn(i, chan)
            /\ UNCHANGED <<sent, batchBuffer>>
       ELSE /\ HasRoom(i + 1)
            /\ chan' = [chan EXCEPT ![i + 1] = Append(@, Head(outq[i]).msg)]
            /\ sent' = [sent EXCEPT ![i + 1] = Append(@, Head(outq[i]).msg)]
            /\ outq' = [outq EXCEPT ![i] = Tail(@)]
            /\ batchBuffer' = IF Head(outq[i]).clear
                                THEN [batchBuffer EXCEPT ![i] = <<>>]
                                ELSE batchBuffer
            /\ UNCHANGED <<status, txAlive, rxAlive>>
  /\ UNCHANGED <<kinds, capacity, sourceKind, sinkKind, numFiles, windowSize,
                 srcPhase, srcFile, srcOpen, nextId, srcSawCancel,
                 received, cancelled, runner, interrupted, mainResult>>

\* ------------------------------------------------------------------ sink
\* Whether handling a message of this type can return Err in this sink:
\* StdoutSink never fails; ParquetDirSink writes on Batch and closes the
\* writer when the loop ends; IcebergSink puts on Batch and commits on
\* Watermark and Eos.
SinkFallible(kind, event) ==
  CASE kind = "stdout_pretty" -> FALSE
    [] kind = "parquet_dir" -> event \in {"Batch", "Eos", "closed"}
    [] OTHER -> event \in {"Batch", "Watermark", "Eos"}

SinkReturn(result) ==
  /\ status' = StatusAfter(SinkOp, result)
  /\ rxAlive' = RxAfterReturn(SinkOp)
  /\ chan' = ChanAfterReturn(SinkOp, chan)

\* One rx.recv().await of the sink and the match arm it runs.
SinkRecv ==
  /\ UNCHANGED <<sinkVars, startVars, topicVars, schemaVars>>
  /\ status[SinkOp] = "running"
  /\ IF chan[SinkOp] = <<>>
       THEN /\ ~txAlive[SinkOp]
            /\ \E ioOk \in (IF SinkFallible(sinkKind, "closed")
                              THEN BOOLEAN ELSE {TRUE}) :
                 SinkReturn(IF ioOk THEN "ok" ELSE "err")
            /\ UNCHANGED received
       ELSE LET msg == Head(chan[SinkOp])
            IN /\ received' = Append(received, msg)
               /\ \E ioOk \in (IF SinkFallible(sinkKind, msg.type)
                                 THEN BOOLEAN ELSE {TRUE}) :
                    IF ~ioOk THEN SinkReturn("err")
                    ELSE IF msg.type = "Eos" THEN SinkReturn("ok")
                    ELSE /\ chan' = [chan EXCEPT ![SinkOp] = Tail(@)]
                         /\ UNCHANGED <<status, rxAlive>>
  /\ UNCHANGED <<kinds, capacity, sourceKind, sinkKind, numFiles, windowSize,
                 sent, txAlive, outq, batchBuffer,
                 srcPhase, srcFile, srcOpen, nextId, srcSawCancel,
                 cancelled, runner, interrupted, mainResult>>

\* ---------------------------------------------------------------- runner
\* The value main returns after its select!: Ok(()) on both branches.
MainReturns == "ok"

\* main's select!: the ctrl_c branch cancels the token, the select
\* completes and main returns Ok(()).  The runtime is then shut down: a task
\* still alive runs on to a suspension point of the executor's choosing and
\* is dropped there, so after the return each task takes any number of
\* further steps, or none.
Interrupt ==
  /\ UNCHANGED <<sinkVars, startVars, topicVars, schemaVars>>
  /\ runner = "waiting"
  /\ cancelled' = TRUE
  /\ interrupted' = TRUE
  /\ runner' = "returned"
  /\ mainResult' = MainReturns
  /\ UNCHANGED <<kinds, capacity, sourceKind, sinkKind, numFiles, windowSize,
                 chan, sent, rxAlive, txAlive, status, outq, batchBuffer,
                 srcPhase, srcFile, srcOpen, nextId, srcSawCancel, received>>

\* main's select!: the other branch awaits every JoinHandle, discarding each
\* result, and main returns Ok(()).
RunnerJoin ==
  /\ UNCHANGED <<sinkVars, startVars, topicVars, schemaVars>>
  /\ runner = "waiting"
  /\ \A i \in Ops : status[i] # "running"
  /\ runner' = "returned"
  /\ mainResult' = MainReturns
  /\ UNCHANGED <<kinds, capacity, sourceKind, sinkKind, numFiles, windowSize,
                 chan, sent, rxAlive, txAlive, status, outq, batchBuffer,
                 srcPhase, srcFile, srcOpen, nextId, srcSawCancel, received,
                 cancelled, interrupted>>

\* ------------------------------------------------------- Iceberg sink
\* Option<T>: None is <<>>, Some(x) is <<x>>.
None == <<>>
Some(x) == <<x>>

\* IcebergTableMetadata.current_snapshot_id and
\* IcebergSnapshot.parent_snapshot_id are Option<i64>; snapshot ids start at
\* 1, and 0 stands for None.
NoSnapshot == 0

DataPath(u) == <<"data", u>>
ManifestPath(u) == <<"metadata", u>>

\* HashMap::insert
Insert(map, k, v) == (k :> v) @@ map

RECURSIVE SumRecords(_)
SumRecords(files) ==
  IF files = <<>> THEN 0
  ELSE Head(files).record_count + SumRecords(Tail(files))

\* IcebergSink::create_new_table_metadata, the document it builds.
NewTableMetadata(uuid) ==
  [ format_version |-> 2,
    table_uuid |-> uuid,
    last_column_id |-> Len(SinkSchema),
    current_schema_id |-> 0,
    schemas |-> {0},
    snapshots |-> <<>>,
    snapshot_log |-> <<>>,
    metadata_log |-> <<>>,
    current_snapshot_id |-> NoSnapshot ]

\* The IcebergDataFile pushed for a Batch.
DataFile(path, rows) ==
  [content |-> 0, file_path |-> path, file_format |-> "PARQUET",
   record_count |-> rows]

\* IcebergSink::write_parquet_file when its put succeeds: the encoded batch
\* is stored at file_path.
write_parquet_file_wrong_path(objs, file_path, rows) ==
  Insert(objs, <<"file_name", file_path[2]>>, [record_count |-> rows])

write_parquet_file(objs, file_path, rows) ==
  Insert(objs, file_path, [record_count |-> rows])

\* IcebergSink::create_manifest_file, the manifest it serializes.
Manifest(files, counter) ==
  [ schema_id |-> 0,
    partition_spec_id |-> 0,
    content |-> 0,
    sequence_number |-> counter,
    min_sequence_number |-> counter,
    entries |-> [k \in 1..Len(files) |->
                   [status |-> 2, snapshot_id |-> counter,
                    data_file |-> files[k]]] ]

\* IcebergSink::create_snapshot, the in-memory metadata after its updates
\* and before write_table_metadata.
WithSnapshot(metadata, counter, files, manifest_path) ==
  LET snapshot ==
        [ snapshot_id |-> counter,
          parent_snapshot_id |-> metadata.current_snapshot_id,
          sequence_number |-> counter,
          manifest_list |-> manifest_path,
          operation |-> "append",
          added_data_files |-> Len(files),
          total_records |-> SumRecords(files),
          added_records |-> SumRecords(files),
          schema_id |-> 0 ]
  IN [metadata EXCEPT
        !.snapshots = Insert(@, counter, snapshot),
        !.current_snapshot_id = counter,
        !.snapshot_log = Append(@, counter)]

CommitDespiteManifestError(manifestOk, metadataOk) ==
  LET path == ManifestPath(uuidNext)
      metadata == WithSnapshot(table_metadata[1], current_snapshot_id,
                               data_files, path)
  IN [ result |-> IF ~manifestOk THEN "manifest_put_failed"
                  ELSE IF ~metadataOk THEN "metadata_put_failed" ELSE "ok",
       objects |-> IF manifestOk
                     THEN Insert(objects, path,
                                 Manifest(data_files, current_snapshot_id))
                     ELSE objects,
       table_metadata |-> Some(metadata),
       storeMetadata |-> IF metadataOk THEN Some(metadata) ELSE storeMetadata,
       counter |-> IF metadataOk THEN current_snapshot_id + 1
                                 ELSE current_snapshot_id ]

\* The commit run on Watermark and on Eos when data_files is not empty:
\* create_manifest_file, then create_snapshot with its write_table_metadata.
\* Each put either stores the whole object or fails and stores nothing; a
\* failed put returns Err from run through ?.
Commit(manifestOk, metadataOk) ==
  LET path == ManifestPath(uuidNext)
      metadata == WithSnapshot(table_metadata[1], current_snapshot_id,
                               data_files, path)
  IN IF ~manifestOk
       THEN [ result |-> "manifest_put_failed",
              objects |-> objects,
              table_metadata |-> table_metadata,
              storeMetadata |-> storeMetadata,
              counter |-> current_snapshot_id ]
       ELSE IF ~metadataOk
         THEN [ result |-> "metadata_put_failed",
                objects |-> Insert(objects, path,
                                   Manifest(data_files, current_snapshot_id)),
                table_metadata |-> Some(metadata),
                storeMetadata |-> storeMetadata,
                counter |-> current_snapshot_id ]
         ELSE [ result |-> "ok",
                objects |-> Insert(objects, path,
                                   Manifest(data_files, current_snapshot_id)),
                table_metadata |-> Some(metadata),
                storeMetadata |-> Some(metadata),
                counter |-> current_snapshot_id + 1 ]

\* The test both commit arms make: !self.data_files.is_empty().
ShouldCommitAlways(files) == TRUE

ShouldCommit(files) == files # <<>>

\* The batches KafkaPipelineSource sends for n object records, as their row
\* counts: parse_json_to_batch_dynamic builds one batch of one row from each
\* record.
TopicBatches(n) == [k \in 1..n |-> 1]

\* The outcomes a store request can have: it fails only while the bound on
\* failed requests allows.
Outcomes == IF failures < MaxFailures THEN BOOLEAN ELSE {TRUE}

Failed(n) == failures' = failures + n

\* IcebergSink::new
SinkNew ==
  /\ table_metadata = None
  /\ current_snapshot_id = 1
  /\ data_files = <<>>
  /\ sinkPc = "new"
  /\ batch_count = 0
  /\ written = {}
  /\ lastCommit = "none"
  /\ commitBefore = None
  /\ openedWith = None
  /\ lastEvent = "none"
  /\ widened = {}

SinkInit ==
  /\ storeMetadata = None
  /\ objects = <<>>
  /\ uuidNext = 1
  /\ runs = 1
  /\ delivered = 0
  /\ failures = 0
  /\ SinkNew

\* run up to its receive loop: initialize_object_store and
\* create_or_load_table_metadata.  get succeeds only on a stored
\* metadata.json; on any Err (absent object, failed request) the sink builds
\* new metadata and puts it.
IcebergOpen ==
  /\ sinkPc = "new"
  /\ \E getOk \in (IF storeMetadata = None THEN {FALSE} ELSE Outcomes),
        putOk \in Outcomes :
       IF getOk
         THEN /\ putOk
              /\ table_metadata' = storeMetadata
              /\ sinkPc' = "running"
              /\ UNCHANGED <<storeMetadata, uuidNext, failures>>
         ELSE /\ table_metadata' = Some(NewTableMetadata(uuidNext))
              /\ uuidNext' = uuidNext + 1
              /\ storeMetadata' = IF putOk THEN Some(NewTableMetadata(uuidNext))
                                           ELSE storeMetadata
              /\ sinkPc' = IF putOk THEN "running" ELSE "err"
              /\ failures' = IF storeMetadata # None \/ ~putOk
                               THEN failures + 1 ELSE failures
  /\ lastCommit' = "none"
  /\ lastEvent' = "open"
  /\ UNCHANGED <<objects, current_snapshot_id, data_files, batch_count,
                 written, commitBefore, openedWith, widened, runs, delivered>>
  /\ UNCHANGED <<pipeVars, startVars, topicVars, schemaVars>>

\* The Message::Batch arm: write_parquet_file, then data_files.push.
\* write_parquet_file encodes the batch with an ArrowWriter built for the
\* sink's schema: a batch of that schema is always encoded; for a batch with
\* one field more (extra) the writer either rejects it, and run returns Err,
\* or encodes it, depending on the writer.
IcebergBatch ==
  /\ sinkPc = "running"
  /\ delivered < MaxMessages
  /\ delivered' = delivered + 1
  /\ batch_count' = batch_count + 1
  /\ \E rows \in 1..MaxRows, extra \in BOOLEAN,
        encodeOk \in BOOLEAN, putOk \in Outcomes :
       /\ ~extra => encodeOk
       /\ ~encodeOk => putOk
       /\ IF encodeOk /\ putOk
            THEN /\ objects' = write_parquet_file(objects, DataPath(uuidNext),
                                                  rows)
                 /\ data_files' = Append(data_files,
                                         DataFile(DataPath(uuidNext), rows))
                 /\ written' = written \cup {DataPath(uuidNext)}
                 /\ widened' = IF extra THEN widened \cup {DataPath(uuidNext)}
                                         ELSE widened
                 /\ uuidNext' = uuidNext + 1
                 /\ UNCHANGED <<sinkPc, failures>>
            ELSE /\ sinkPc' = "err"
                 /\ Failed(IF encodeOk THEN 1 ELSE 0)
                 /\ UNCHANGED <<objects, data_files, written, widened,
                                uuidNext>>
  /\ lastCommit' = "none"
  /\ lastEvent' = "Batch"
  /\ UNCHANGED <<storeMetadata, table_metadata, current_snapshot_id,
                 commitBefore, openedWith, runs>>
  /\ UNCHANGED <<pipeVars, startVars, topicVars, schemaVars>>

\* self.data_files.clear() after the commit of the Watermark arm.
clear_nothing(files) == files

clear(files) == <<>>

\* The Message::Watermark arm.
IcebergWatermark ==
  /\ sinkPc = "running"
  /\ delivered < MaxMessages
  /\ delivered' = delivered + 1
  /\ IF ShouldCommit(data_files)
       THEN \E manifestOk \in Outcomes, metadataOk \in Outcomes :
              LET c == Commit(manifestOk, metadataOk)
              IN /\ manifestOk \/ metadataOk
                 /\ failures' = IF c.result = "ok" THEN failures
                                                   ELSE failures + 1
                 /\ objects' = c.objects
                 /\ table_metadata' = c.table_metadata
                 /\ storeMetadata' = c.storeMetadata
                 /\ current_snapshot_id' = c.counter
                 /\ lastCommit' = c.result
                 /\ commitBefore' = storeMetadata
                 /\ uuidNext' = IF manifestOk THEN uuidNext + 1 ELSE uuidNext
                 /\ data_files' = IF c.result = "ok" THEN clear(data_files)
                                                      ELSE data_files
                 /\ sinkPc' = IF c.result = "ok" THEN "running" ELSE "err"
       ELSE /\ lastCommit' = "none"
            /\ UNCHANGED <<objects, table_metadata, storeMetadata,
                           current_snapshot_id, commitBefore, uuidNext,
                           data_files, sinkPc, failures>>
  /\ lastEvent' = "Watermark"
  /\ UNCHANGED <<batch_count, written, openedWith, widened, runs>>
  /\ UNCHANGED <<pipeVars, startVars, topicVars, schemaVars>>

\* The Message::Eos arm: the same commit, without data_files.clear(), then
\* break and Ok(()).
IcebergEos ==
  /\ sinkPc = "running"
  /\ IF ShouldCommit(data_files)
       THEN \E manifestOk \in Outcomes, metadataOk \in Outcomes :
              LET c == Commit(manifestOk, metadataOk)
              IN /\ manifestOk \/ metadataOk
                 /\ failures' = IF c.result = "ok" THEN failures
                                                   ELSE failures + 1
                 /\ objects' = c.objects
                 /\ table_metadata' = c.table_metadata
                 /\ storeMetadata' = c.storeMetadata
                 /\ current_snapshot_id' = c.counter
                 /\ lastCommit' = c.result
                 /\ commitBefore' = storeMetadata
                 /\ uuidNext' = IF manifestOk THEN uuidNext + 1 ELSE uuidNext
                 /\ sinkPc' = IF c.result = "ok" THEN "ok" ELSE "err"
       ELSE /\ lastCommit' = "none"
            /\ sinkPc' = "ok"
            /\ UNCHANGED <<objects, table_metadata, storeMetadata,
                           current_snapshot_id, commitBefore, uuidNext,
                           failures>>
  /\ lastEvent' = "Eos"
  /\ UNCHANGED <<data_files, batch_count, written, openedWith, widened,
                 runs, delivered>>
  /\ UNCHANGED <<pipeVars, startVars, topicVars, schemaVars>>

\* rx.recv() yields None (every Sender dropped without an Eos): the while
\* loop ends and run returns Ok(()).
IcebergClosed ==
  /\ sinkPc = "running"
  /\ sinkPc' = "ok"
  /\ lastCommit' = "none"
  /\ lastEvent' = "closed"
  /\ UNCHANGED <<storeMetadata, objects, table_metadata, current_snapshot_id,
                 data_files, batch_count, written, commitBefore, openedWith,
                 widened, uuidNext, runs, delivered, failures>>
  /\ UNCHANGED <<pipeVars, startVars, topicVars, schemaVars>>

\* TopicMappingManager::create_initial_metadata, the document it builds for
\* a schema of n fields.
InitialMetadata(uuid, n) ==
  [ format_version |-> 1,
    table_uuid |-> uuid,
    last_column_id |-> n,
    current_schema_id |-> 1,
    schemas |-> {1},
    snapshots |-> <<>>,
    snapshot_log |-> <<>>,
    metadata_log |-> <<>>,
    current_snapshot_id |-> NoSnapshot ]

\* TopicMappingManager::update_table_schema, the metadata it serializes for
\* a new schema of n fields: the new schema's id is last_column_id + 1.
WithSchemaNotInserted(metadata, n) ==
  [metadata EXCEPT
     !.current_schema_id = metadata.last_column_id + 1,
     !.last_column_id = n]

WithSchema(metadata, n) ==
  [metadata EXCEPT
     !.schemas = @ \cup {metadata.last_column_id + 1},
     !.current_schema_id = metadata.last_column_id + 1,
     !.last_column_id = n]

\* TopicMappingManager::update_table_schema, once, before the last run of
\* the sink (so that it finds what the earlier runs stored and the last run
\* loads what it stores): it loads metadata.json, or builds initial metadata
\* when the get returns Err, adds the schema and puts the document back.
update_table_schema ==
  /\ sinkPc = "new" /\ lastEvent = "none" /\ runs = MaxRuns
  /\ \E n \in 0..MaxFields,
        getOk \in (IF storeMetadata = None THEN {FALSE} ELSE Outcomes),
        putOk \in Outcomes :
       LET loaded == IF getOk THEN storeMetadata[1]
                              ELSE InitialMetadata(uuidNext, n)
       IN /\ getOk \/ putOk \/ storeMetadata = None
          /\ storeMetadata' = IF putOk THEN Some(WithSchema(loaded, n))
                                       ELSE storeMetadata
          /\ uuidNext' = IF getOk \/ ~putOk THEN uuidNext ELSE uuidNext + 1
          /\ failures' = IF (storeMetadata # None /\ ~getOk) \/ ~putOk
                           THEN failures + 1 ELSE failures
  /\ openedWith' = storeMetadata'
  /\ lastCommit' = "none"
  /\ lastEvent' = "schema"
  /\ UNCHANGED <<objects, table_metadata, current_snapshot_id, data_files,
                 sinkPc, batch_count, written, commitBefore, widened,
                 runs, delivered>>
  /\ UNCHANGED <<pipeVars, startVars, topicVars, schemaVars>>

\* The next run of the pipeline against the same table: main builds a new
\* IcebergSink with IcebergSink::new.
IcebergRestart ==
  /\ sinkPc \in {"ok", "err"}
  /\ runs < MaxRuns
  /\ runs' = runs + 1
  /\ table_metadata' = None
  /\ current_snapshot_id' = 1
  /\ data_files' = <<>>
  /\ sinkPc' = "new"
  /\ batch_count' = 0
  /\ written' = {}
  /\ lastCommit' = "none"
  /\ commitBefore' = None
  /\ openedWith' = storeMetadata
  /\ lastEvent' = "none"
  /\ widened' = {}
  /\ UNCHANGED <<storeMetadata, objects, uuidNext, delivered, failures>>
  /\ UNCHANGED <<pipeVars, startVars, topicVars, schemaVars>>

Next ==
  \/ CsvSourceStep
  \/ KafkaSourceStep
  \/ SourceSend
  \/ \E i \in 1..NumTransforms : TransformRecv(i)
  \/ \E i \in 1..NumTransforms : TransformSend(i)
  \/ SinkRecv
  \/ Interrupt
  \/ RunnerJoin

Spec == Init /\ [][Next]_vars

InitSink == PipeIdle /\ SinkInit /\ StartDone /\ TopicIdle /\ SchemaIdle

NextSink ==
  \/ IcebergOpen
  \/ IcebergBatch
  \/ IcebergWatermark
  \/ IcebergEos
  \/ IcebergClosed
  \/ IcebergRestart
  \/ update_table_schema

SpecSink == InitSink /\ [][NextSink]_vars

\* ------------------------------------------------------ main, at startup
\* serde_yaml::from_str(&y)?: any lists of sources, transforms and sinks.
StartInit ==
  /\ sources \in SeqsUpTo(SourceKinds, MaxOperators)
  /\ transforms \in SeqsUpTo({"passthrough"}, MaxOperators)
  /\ sinks \in SeqsUpTo(SinkKinds, MaxOperators)
  /\ startPc = "parsed" /\ startResult = "none" /\ spawned = 0

\* spec.sources[0] and spec.sinks[0]: indexing an empty Vec panics.
IndexZero(list) == IF list = <<>> THEN "panic" ELSE list[1]

\* "let schema: SchemaRef = match &spec.sources[0]": for Csv the glob is
\* resolved and no match is an error; for Kafka a failed load of the mapped
\* table gives the empty schema.
InferSchemaUpfront ==
  /\ startPc = "parsed"
  /\ \E matched \in BOOLEAN :
       LET source == IndexZero(sources)
       IN /\ (source # "file_csv") => matched
          /\ startPc' = IF source = "panic" THEN "panicked"
                        ELSE IF matched THEN "schema" ELSE "returned"
          /\ startResult' = IF source = "panic" THEN "panic"
                            ELSE IF matched THEN "none" ELSE "error"
  /\ UNCHANGED <<sources, transforms, sinks, spawned>>
  /\ UNCHANGED <<pipeVars, sinkVars, topicVars, schemaVars>>

\* Build the source from spec.sources[0], every transform, and the sink
\* from spec.sinks[0].
BuildOperators ==
  /\ startPc = "schema"
  /\ startPc' = IF IndexZero(sinks) = "panic" THEN "panicked" ELSE "built"
  /\ startResult' = IF IndexZero(sinks) = "panic" THEN "panic" ELSE "none"
  /\ UNCHANGED <<sources, transforms, sinks, spawned>>
  /\ UNCHANGED <<pipeVars, sinkVars, topicVars, schemaVars>>

\* tokio::spawn for the source, each transform and the sink.
SpawnTasks ==
  /\ startPc = "built"
  /\ startPc' = "spawned"
  /\ spawned' = Len(transforms) + 2
  /\ UNCHANGED <<sources, transforms, sinks, startResult>>
  /\ UNCHANGED <<pipeVars, sinkVars, topicVars, schemaVars>>

InitStartup == PipeIdle /\ SinkIdle /\ TopicIdle /\ SchemaIdle /\ StartInit

NextStartup ==
  \/ InferSchemaUpfront
  \/ BuildOperators
  \/ SpawnTasks

SpecStartup == InitStartup /\ [][NextStartup]_vars

\* ------------------------------------------------------ the topic source
\* mpsc::channel(100) between the consumer task and the source.
StreamCapacity == 100

Field(name, type, nullable) ==
  [name |-> name, type |-> type, nullable |-> nullable]

\* The members of an object in the order serde_json's Map iterates them.
Names == <<"id", "v">>

\* obj.get(name)
Get(val, name) == IF name = "id" THEN val.id ELSE val.v

\* "array" is a non-empty array with an element that is not null.
infer_field_type(kind) ==
  CASE kind = "null" -> "Utf8"
    [] kind = "bool" -> "Boolean"
    [] kind = "int" -> "Int64"
    [] kind = "float" -> "Float64"
    [] kind = "string" -> "Utf8"
    [] kind = "array" -> "List"
    [] kind = "object" -> "Utf8"

infer_schema(val) ==
  IF val.kind # "object" THEN <<>>
  ELSE LET present == SelectSeq(Names, LAMBDA n : Get(val, n) # "absent")
       IN [i \in 1..Len(present) |->
             Field(present[i], infer_field_type(Get(val, present[i])), TRUE)]

\* with_config: the types a configured field can have.
ConfiguredTypes == {"Int64", "Float64", "Utf8", "Boolean"}

ConfiguredSchemas ==
  {None} \cup
  {Some(<<Field("id", "Int64", FALSE), Field("v", t, TRUE)>>) :
     t \in ConfiguredTypes}

\* The value of current_schema after update_schema_if_needed(val).
update_schema_if_needed(val) ==
  IF ~auto_infer
  THEN IF current_schema = None /\ configured_schema # None
       THEN configured_schema
       ELSE current_schema
  ELSE IF current_schema # None /\ current_schema[1] = infer_schema(val)
       THEN current_schema
       ELSE Some(infer_schema(val))

get_current_schema(current) ==
  IF current # None THEN current ELSE configured_schema

merge_schemas(val) ==
  IF configured_schema # None
  THEN LET configured == configured_schema[1]
           inferred == infer_schema(val)
           field_names == {configured[i].name : i \in 1..Len(configured)}
       IN configured \o
          SelectSeq(inferred, LAMBDA f : f.name \notin field_names)
  ELSE infer_schema(val)

\* The one-element array built for a field of the given type from the JSON
\* value found under its name (Value::Null when the object lacks the name).
Cell(type, kind) ==
  CASE type = "Boolean" ->
         [array |-> "Boolean",
          value |-> IF kind = "bool" THEN "value" ELSE "false"]
    [] type = "Int64" ->
         [array |-> "Int64",
          value |-> IF kind = "int" THEN "value" ELSE "0"]
    [] type = "Float64" ->
         [array |-> "Float64",
          value |-> IF kind \in {"int", "float"} THEN "value" ELSE "0.0"]
    [] type = "Utf8" ->
         [array |-> "Utf8",
          value |-> IF kind = "string" THEN "value" ELSE ""]
    [] OTHER ->
         [array |-> "Utf8", value |-> "json"]

\* RecordBatch::try_new succeeds when there is at least one column and each
\* column has the type of its field.
try_new(schema, arrays) ==
  /\ arrays # <<>>
  /\ Len(arrays) = Len(schema)
  /\ \A i \in 1..Len(schema) : arrays[i].array = schema[i].type

parse_json_to_batch_dynamic(val, current) ==
  IF val.kind = "null" THEN NoResult
  ELSE IF get_current_schema(current) = None THEN ErrResult
  ELSE LET schema == get_current_schema(current)[1]
           arrays ==
             IF val.kind = "object"
             THEN [i \in 1..Len(schema) |->
                     Cell(schema[i].type, Get(val, schema[i].name))]
             ELSE <<>>
       IN IF try_new(schema, arrays) THEN OkBatch(schema, arrays)
          ELSE ErrResult

\* A message of the topic: a payload that is JSON, a payload that is not,
\* no payload, or an error reported by the consumer instead of a message.
Payload(p, val) == [payload |-> p, val |-> val]
Payloads ==
  {Payload("json", val) : val \in Objects} \cup
  {Payload(p, NullValue) : p \in {"bad", "none", "error"}}

\* parse_message(&m).ok()
parse_message_forwarded(p) == Some(p.val)

parse_message(p) ==
  IF p.payload = "bad" THEN None ELSE Some(p.val)

TopicBatch(offset) == [type |-> "Batch", offset |-> offset, rows |-> 1]
TopicEos == [type |-> "Eos", offset |-> 0, rows |-> 0]

TopicInit ==
  /\ auto_infer \in BOOLEAN
  /\ configured_schema \in ConfiguredSchemas
  /\ current_schema = None
  /\ consumed = 0 /\ stream = <<>> /\ consumerAlive = TRUE
  /\ value = NullValue /\ batch = NoResult /\ topicStatus = "running"
  /\ topicCancelled = FALSE /\ downOpen = TRUE
  /\ topicLog = <<>> /\ emitted = <<>> /\ merged = None

\* One turn of the consumer task's loop.  A message that gives no value is
\* skipped; a value is sent to the source, and the task ends when the source
\* has dropped its end of the channel.
ConsumerStep ==
  /\ consumerAlive /\ consumed < MaxRecords
  /\ Len(stream) < StreamCapacity
  /\ \E p \in Payloads :
       LET parsed == IF p.payload = "error" THEN None ELSE parse_message(p)
           offset == consumed + 1
       IN /\ consumed' = offset
          /\ topicLog' = Append(topicLog, p.payload)
          /\ IF parsed = None
             THEN UNCHANGED <<stream, consumerAlive>>
             ELSE IF topicStatus = "running"
             THEN /\ stream' = Append(stream,
                                      [offset |-> offset, val |-> parsed[1]])
                  /\ UNCHANGED consumerAlive
             ELSE /\ consumerAlive' = FALSE
                  /\ UNCHANGED stream
  /\ UNCHANGED <<auto_infer, configured_schema, current_schema, value, batch,
                 topicStatus, topicCancelled, downOpen, emitted, merged>>
  /\ UNCHANGED <<pipeVars, sinkVars, startVars, schemaVars>>

\* One turn of the loop of KafkaPipelineSource::run, from the value taken
\* from the stream to the send of its batch, and the code after the loop
\* when the turn leaves it.  The Receiver of tx takes what is sent.
TopicRun ==
  /\ topicStatus = "running" /\ stream # <<>>
  /\ LET val == Head(stream).val
         offset == Head(stream).offset
         current == update_schema_if_needed(val)
         result == parse_json_to_batch_dynamic(val, current)
     IN IF topicCancelled
        THEN /\ emitted' = IF downOpen THEN Append(emitted, TopicEos)
                           ELSE emitted
             /\ topicStatus' = "ok"
             /\ stream' = <<>>
             /\ UNCHANGED <<current_schema, value, batch>>
        ELSE /\ current_schema' = current
             /\ value' = val
             /\ batch' = result
             /\ IF result.result = "err"
                THEN /\ topicStatus' = "err"
                     /\ stream' = <<>>
                     /\ UNCHANGED emitted
                ELSE IF result.result = "none"
                THEN /\ stream' = Tail(stream)
                     /\ UNCHANGED <<topicStatus, emitted>>
                ELSE IF downOpen
                THEN /\ emitted' = Append(emitted, TopicBatch(offset))
                     /\ stream' = Tail(stream)
                     /\ UNCHANGED topicStatus
                ELSE /\ topicStatus' = "ok"
                     /\ stream' = <<>>
                     /\ UNCHANGED emitted
  /\ UNCHANGED <<auto_infer, configured_schema, consumed, consumerAlive,
                 topicCancelled, downOpen, topicLog, merged>>
  /\ UNCHANGED <<pipeVars, sinkVars, startVars, schemaVars>>

\* The runner cancels the token.
TopicCancel ==
  /\ topicStatus = "running" /\ ~topicCancelled
  /\ topicCancelled' = TRUE
  /\ UNCHANGED <<auto_infer, configured_schema, current_schema, consumed,
                 stream, consumerAlive, value, batch, topicStatus, downOpen,
                 topicLog, emitted, merged>>
  /\ UNCHANGED <<pipeVars, sinkVars, startVars, schemaVars>>

\* The operator downstream returns and drops the Receiver of tx.
DownstreamCloses ==
  /\ topicStatus = "running" /\ downOpen
  /\ downOpen' = FALSE
  /\ UNCHANGED <<auto_infer, configured_schema, current_schema, consumed,
                 stream, consumerAlive, value, batch, topicStatus,
                 topicCancelled, topicLog, emitted, merged>>
  /\ UNCHANGED <<pipeVars, sinkVars, startVars, schemaVars>>

InitTopic == PipeIdle /\ SinkIdle /\ StartDone /\ SchemaIdle /\ TopicInit

NextTopic ==
  \/ ConsumerStep
  \/ TopicRun
  \/ TopicCancel
  \/ DownstreamCloses

SpecTopic == InitTopic /\ [][NextTopic]_vars

\* merge_schemas applied by a manager, configured in any way, to any value.
MergeInit ==
  /\ auto_infer \in BOOLEAN
  /\ configured_schema \in ConfiguredSchemas
  /\ current_schema = None
  /\ consumed = 0 /\ stream = <<>> /\ consumerAlive = FALSE
  /\ value \in Objects \cup {NullValue}
  /\ batch = NoResult /\ topicStatus = "off"
  /\ topicCancelled = FALSE /\ downOpen = FALSE
  /\ topicLog = <<>> /\ emitted = <<>> /\ merged = None

MergeSchemas ==
  /\ topicStatus = "off" /\ merged = None
  /\ merged' = Some(merge_schemas(value))
  /\ UNCHANGED <<auto_infer, configured_schema, current_schema, consumed,
                 stream, consumerAlive, value, batch, topicStatus,
                 topicCancelled, downOpen, topicLog, emitted>>
  /\ UNCHANGED <<pipeVars, sinkVars, startVars, schemaVars>>

InitMerge == PipeIdle /\ SinkIdle /\ StartDone /\ SchemaIdle /\ MergeInit

NextMerge == MergeSchemas

SpecMerge == InitMerge /\ [][NextMerge]_vars

\* ------------------------------------------------- schemas as values
\* arrow DataType, by name; "List" stands for the types no match arm names.
ArrowTypes ==
  {"Int32", "Int64", "Float32", "Float64", "Boolean", "Utf8", "Binary",
   "Date32", "Timestamp", "List"}

\* The field names of the schemas drawn below.
Columns == {"a", "b"}

Injective(f) == \A i, j \in DOMAIN f : f[i] = f[j] => i = j

\* The orders in which the elements of a set can be listed.
Orders(S) == {f \in [1..Cardinality(S) -> S] : Injective(f)}

\* The schemas of distinctly named fields over the given types.
SchemasOver(types) ==
  UNION {{[i \in 1..Len(names) |-> Field(names[i], t[i], n[i])] :
            t \in [1..Len(names) -> types],
            n \in [1..Len(names) -> BOOLEAN]} :
         names \in {f \in SeqsUpTo(Columns, Cardinality(Columns)) :
                      Injective(f)}}

\* ------------------------------------------------- TopicMappingManager
promote_field_type_to_new(existing, new) == new

promote_field_type(existing, new) ==
  CASE existing = "Int32" /\ new = "Int64" -> "Int64"
    [] existing = "Float32" /\ new = "Float64" -> "Float64"
    [] existing = "Int32" /\ new = "Float64" -> "Float64"
    [] existing = "Int64" /\ new = "Float64" -> "Float64"
    [] OTHER -> existing

PromoteInit ==
  /\ existing_type \in ArrowTypes /\ new_type \in ArrowTypes
  /\ promoted_type = None
  /\ mapping_current_schema = None /\ new_schema = <<>> /\ merged_schema = None
  /\ sink_schema = <<>> /\ iceberg_schema = None
  /\ evolution_schema = <<>> /\ evolution_auto_infer = FALSE
  /\ strict_mode = FALSE

PromoteFieldType ==
  /\ promoted_type = None
  /\ promoted_type' = Some(promote_field_type(existing_type, new_type))
  /\ UNCHANGED <<mapping_current_schema, new_schema, merged_schema,
                 existing_type, new_type, sink_schema, iceberg_schema,
                 evolution_schema, evolution_auto_infer, strict_mode>>
  /\ UNCHANGED <<pipeVars, sinkVars, startVars, topicVars>>

InitPromote == PipeIdle /\ SinkIdle /\ StartDone /\ TopicIdle /\ PromoteInit

NextPromote == PromoteFieldType

SpecPromote == InitPromote /\ [][NextPromote]_vars

\* The field_map of merge_schemas after "Add existing fields".
FieldMap(current) ==
  IF current = None THEN <<>>
  ELSE [name \in {current[1][i].name : i \in 1..Len(current[1])} |->
          current[1][CHOOSE i \in 1..Len(current[1]) :
                       current[1][i].name = name]]

\* "Add new fields or update existing ones".
RECURSIVE AddNewFields(_, _)
AddNewFields(field_map, fields) ==
  IF fields = <<>> THEN field_map
  ELSE LET field == Head(fields)
           entry ==
             IF field.name \in DOMAIN field_map
             THEN Field(field.name,
                        promote_field_type(field_map[field.name].type,
                                           field.type),
                        field.nullable)
             ELSE field
       IN AddNewFields(Insert(field_map, field.name, entry), Tail(fields))

\* TopicMappingManager::merge_schemas: field_map.into_values() yields the
\* fields in the order the HashMap iterates them, which can be any.
mapping_merge_schemas(current, new) ==
  LET field_map == AddNewFields(FieldMap(current), new)
  IN {[i \in 1..Len(order) |-> field_map[order[i]]] :
        order \in Orders(DOMAIN field_map)}

MergeTypes == {"Int32", "Int64", "Float64", "Utf8"}

MappingInit ==
  /\ mapping_current_schema \in
       {None} \cup {Some(schema) : schema \in SchemasOver(MergeTypes)}
  /\ new_schema \in SchemasOver(MergeTypes)
  /\ merged_schema = None
  /\ existing_type = "Utf8" /\ new_type = "Utf8" /\ promoted_type = None
  /\ sink_schema = <<>> /\ iceberg_schema = None
  /\ evolution_schema = <<>> /\ evolution_auto_infer = FALSE
  /\ strict_mode = FALSE

MappingMergeSchemas ==
  /\ merged_schema = None
  /\ \E merged_fields \in
          mapping_merge_schemas(mapping_current_schema, new_schema) :
       merged_schema' = Some(merged_fields)
  /\ UNCHANGED <<mapping_current_schema, new_schema,
                 existing_type, new_type, promoted_type,
                 sink_schema, iceberg_schema,
                 evolution_schema, evolution_auto_infer, strict_mode>>
  /\ UNCHANGED <<pipeVars, sinkVars, startVars, topicVars>>

InitMapping == PipeIdle /\ SinkIdle /\ StartDone /\ TopicIdle /\ MappingInit

NextMapping == MappingMergeSchemas

SpecMapping == InitMapping /\ [][NextMapping]_vars

\* ------------------------------------------ IcebergSink schema conversion
convert_arrow_type_to_iceberg(arrow_type) ==
  CASE arrow_type = "Int64" -> "long"
    [] arrow_type = "Int32" -> "int"
    [] arrow_type = "Float64" -> "double"
    [] arrow_type = "Float32" -> "float"
    [] arrow_type = "Utf8" -> "string"
    [] arrow_type = "Boolean" -> "boolean"
    [] arrow_type = "Timestamp" -> "timestamp"
    [] arrow_type = "Date32" -> "date"
    [] OTHER -> "string"

IcebergField(id, name, field_type, required) ==
  [id |-> id, name |-> name, field_type |-> field_type,
   required |-> required]

convert_arrow_schema_to_iceberg(schema) ==
  [schema_id |-> 0,
   fields |-> [k \in 1..Len(schema) |->
                 IcebergField(k, schema[k].name,
                              convert_arrow_type_to_iceberg(schema[k].type),
                              ~schema[k].nullable)]]

ConvertInit ==
  /\ sink_schema \in SchemasOver(ArrowTypes)
  /\ iceberg_schema = None
  /\ mapping_current_schema = None /\ new_schema = <<>> /\ merged_schema = None
  /\ existing_type = "Utf8" /\ new_type = "Utf8" /\ promoted_type = None
  /\ evolution_schema = <<>> /\ evolution_auto_infer = FALSE
  /\ strict_mode = FALSE

ConvertSchema ==
  /\ iceberg_schema = None
  /\ iceberg_schema' = Some(convert_arrow_schema_to_iceberg(sink_schema))
  /\ UNCHANGED <<mapping_current_schema, new_schema, merged_schema,
                 existing_type, new_type, promoted_type, sink_schema,
                 evolution_schema, evolution_auto_infer, strict_mode>>
  /\ UNCHANGED <<pipeVars, sinkVars, startVars, topicVars>>

InitConvert == PipeIdle /\ SinkIdle /\ StartDone /\ TopicIdle /\ ConvertInit

NextConvert == ConvertSchema

SpecConvert == InitConvert /\ [][NextConvert]_vars

\* ------------------------------------------------------- SchemaEvolution
\* infer_schema_from_json(batch_to_json(batch)): array_value_to_json gives
\* the string "placeholder" for every value, so every field of a batch with
\* rows is inferred as a nullable Utf8, in the order the HashMap iterates;
\* for a batch without rows the result is the current schema.
infer_schema_from_json(batch_schema, rows, current) ==
  IF rows = 0 THEN {current}
  ELSE {[i \in 1..Len(order) |-> Field(order[i], "Utf8", TRUE)] :
          order \in Orders({batch_schema[i].name :
                              i \in 1..Len(batch_schema)})}

EvolutionTypes == {"Int64", "Utf8"}

EvolutionInit ==
  /\ evolution_schema \in SchemasOver(EvolutionTypes)
  /\ evolution_auto_infer \in BOOLEAN
  /\ strict_mode \in BOOLEAN
  /\ mapping_current_schema = None /\ new_schema = <<>> /\ merged_schema = None
  /\ existing_type = "Utf8" /\ new_type = "Utf8" /\ promoted_type = None
  /\ sink_schema = <<>> /\ iceberg_schema = None

\* The Message::Batch arm of SchemaEvolution::run.
SchemaEvolutionBatch ==
  /\ \E batch_schema \in SchemasOver(EvolutionTypes), rows \in 0..MaxRows :
       IF evolution_auto_infer
       THEN \E inferred \in infer_schema_from_json(batch_schema, rows,
                                                   evolution_schema) :
              evolution_schema' = inferred
       ELSE UNCHANGED evolution_schema
  /\ UNCHANGED <<mapping_current_schema, new_schema, merged_schema,
                 existing_type, new_type, promoted_type,
                 sink_schema, iceberg_schema,
                 evolution_auto_infer, strict_mode>>
  /\ UNCHANGED <<pipeVars, sinkVars, startVars, topicVars>>

InitEvolution ==
  PipeIdle /\ SinkIdle /\ StartDone /\ TopicIdle /\ EvolutionInit

NextEvolution == SchemaEvolutionBatch

SpecEvolution == InitEvolution /\ [][NextEvolution]_vars

\* The executor runs every task that is ready, and a channel wakes the task
\* waiting on it: each step of a task that stays possible is taken, and so
\* is main's join.  Nothing obliges a record to arrive from the topic
\* (KafkaSourceStep) or the user to press Ctrl-C (Interrupt).
Fairness ==
  /\ WF_vars(CsvSourceStep)
  /\ WF_vars(SourceSend)
  /\ \A i \in 1..MaxTransforms :
       /\ WF_vars(i <= NumTransforms /\ TransformRecv(i))
       /\ WF_vars(i <= NumTransforms /\ TransformSend(i))
  /\ WF_vars(SinkRecv)
  /\ WF_vars(RunnerJoin)

SpecLive == Init /\ [][Next]_vars /\ Fairness

\* ================================================================ claims
\* ---- the pipeline (Spec)
AllPassthrough == \A i \in 1..NumTransforms : kinds[i] = "passthrough"

AllReturnedOk ==
  /\ runner = "returned" /\ ~interrupted
  /\ \A i \in Ops : status[i] = "ok"

\* C1: in a pipeline source -> k Passthrough -> sink, what the sink has
\* received is always a prefix of what the source has sent, and is all of it
\* once the run has ended with no interrupt and no failed task.
PassthroughDelivery ==
  AllPassthrough =>
    /\ IsPrefix(received, sent[1])
    /\ AllReturnedOk => received = sent[1]

PassthroughDeliveryWitness ==
  /\ AllPassthrough /\ NumTransforms >= 1
  /\ AllReturnedOk
  /\ Len(received) = MaxBatches + 1
  /\ received[Len(received)] = Eos

EosOnlyLast(s) == \A p \in 1..Len(s) : s[p].type = "Eos" => p = Len(s)

\* C2: on every channel at most one Eos is sent and nothing is sent after
\* it: an Eos is the last message of the channel's history.
EosTerminatesChannel == \A c \in Chans : EosOnlyLast(sent[c])

EosTerminatesChannelWitness ==
  /\ NumTransforms = 1 /\ kinds[1] = "sql_transform" /\ windowSize = 2
  /\ sent[1] = <<Batch(<<1>>, <<>>), Eos>>
  /\ sent[2] = <<Batch(<<1>>, <<"sql_transform">>), Eos>>

EosCount(s) == Cardinality({p \in 1..Len(s) : s[p].type = "Eos"})

\* C3: every source or transform that has returned Ok has sent exactly one
\* Eos on its output channel, except a source cancelled before any send.
OneEosWhenOk ==
  \A i \in Producers :
    status[i] = "ok" =>
      \/ EosCount(sent[i + 1]) = 1
      \/ i = 0 /\ srcSawCancel /\ sent[1] = <<>>

\* C4: after an interrupt the token is triggered and the runner has not
\* returned while an operator task is still running.
InterruptWaitsForTasks ==
  interrupted =>
    /\ cancelled
    /\ runner = "returned" => \A i \in Ops : status[i] # "running"

\* C10: once the runner has returned with a task that returned Err, the
\* shared token has been triggered.
TaskErrorCancels ==
  (runner = "returned" /\ \E i \in Ops : status[i] = "err") => cancelled

AnyFailed == \E i \in Ops : status[i] = "err"

\* C11: when main has joined the tasks and one of them returned Err, main's
\* own result is an error.
TaskErrorIsMainError ==
  (runner = "returned" /\ ~interrupted /\ AnyFailed) => mainResult = "err"

\* C12: a run over a file source ends, unless it is interrupted or a task
\* fails, with every task returned Ok and main returned: no task stays
\* suspended in a send or a receive.
FileRunTerminates ==
  (sourceKind = "file_csv") ~> (interrupted \/ AnyFailed \/ AllReturnedOk)

FileRunTerminatesWitness ==
  /\ sourceKind = "file_csv" /\ NumTransforms = MaxTransforms
  /\ capacity = 1
  /\ AllReturnedOk /\ mainResult = "ok"
  /\ Len(sent[1]) = MaxBatches + 1
  /\ Len(received) = MaxBatches + 1

\* C13: once the Receiver of a channel is dropped, every operator upstream
\* of that channel eventually returns.
DroppedReceiverReleasesUpstream ==
  \A c \in 1..(MaxTransforms + 1) :
    (c \in Chans /\ ~rxAlive[c]) ~> (\A i \in 0..(c - 1) : status[i] # "running")

HasBatch(s) == \E p \in 1..Len(s) : s[p].type = "Batch"

\* C15: a source that has seen the token cancelled before sending any Batch
\* sends no Eos.
CancelledSourceSendsNoEos ==
  (srcSawCancel /\ ~HasBatch(sent[1])) => EosCount(sent[1]) = 0

\* C16: once the token is cancelled, a Kafka source that has sent a Batch
\* eventually returns, whether or not another record arrives.
CancelledTopicSourceReturns ==
  (cancelled /\ sourceKind = "kafka" /\ HasBatch(sent[1]))
    ~> (status[0] # "running")

\* C20: every Batch the sink has received has the schema the sink was
\* constructed with.
BatchesHaveSinkSchema ==
  \A p \in 1..Len(received) :
    received[p].type = "Batch" => BatchSchema(received[p]) = SinkSchema

BatchesOf(s) == SelectSeq(s, LAMBDA m : m.type = "Batch")

RECURSIVE ConcatIds(_, _, _)
ConcatIds(batches, from, to) ==
  IF from > to THEN <<>>
  ELSE batches[from].ids \o ConcatIds(batches, from + 1, to)

Min(a, b) == IF a < b THEN a ELSE b

\* C26: the k-th Batch a SqlTransform sends is computed over all the Batches
\* of its k-th window: with window_size 2, the first over Batches 1 and 2.
WindowOverAllBuffered ==
  \A i \in 1..NumTransforms :
    kinds[i] = "sql_transform" =>
      LET in == BatchesOf(sent[i])
          out == BatchesOf(sent[i + 1])
      IN \A k \in 1..Len(out) :
           out[k].ids = ConcatIds(in, (k - 1) * windowSize + 1,
                                  Min(k * windowSize, Len(in)))

ChannelBounded == \A c \in Chans : Len(chan[c]) <= capacity

\* C29: a channel never holds more than capacity messages, and a producer
\* with a send pending on a full channel takes no step while the channel's
\* content stays as it is.
ChannelCapacityRespected ==
  /\ []ChannelBounded
  /\ [][\A i \in 0..MaxTransforms :
          ( /\ i \in Producers
            /\ status[i] = "running" /\ outq[i] # <<>>
            /\ rxAlive[i + 1]
            /\ Len(chan[i + 1]) = capacity
            /\ chan'[i + 1] = chan[i + 1] ) =>
          ( /\ outq'[i] = outq[i]
            /\ status'[i] = status[i]
            /\ sent'[i + 1] = sent[i + 1] )]_vars

ChannelCapacityRespectedWitness ==
  /\ capacity = MaxCapacity
  /\ \E i \in Producers :
       /\ status[i] = "running" /\ outq[i] # <<>>
       /\ rxAlive[i + 1]
       /\ Len(chan[i + 1]) = capacity

Ceil(n, w) == (n + w - 1) \div w

\* C36: a SqlTransform that has run to its end on N Batches followed by Eos,
\* without Watermark and without a failed task, has sent ceil(N / W) Batches
\* and then one Eos; while it waits for a message its buffer holds fewer
\* than W Batches.
SqlWindowCount ==
  \A i \in 1..NumTransforms :
    kinds[i] = "sql_transform" =>
      /\ ( /\ status[i] = "ok" /\ ~AnyFailed
           /\ sent[i] # <<>> /\ sent[i][Len(sent[i])].type = "Eos"
           /\ \A p \in 1..Len(sent[i]) - 1 : sent[i][p].type = "Batch" ) =>
           LET n == Ceil(Len(sent[i]) - 1, windowSize)
           IN /\ Len(sent[i + 1]) = n + 1
              /\ \A p \in 1..n : sent[i + 1][p].type = "Batch"
              /\ sent[i + 1][n + 1].type = "Eos"
      /\ (status[i] = "running" /\ outq[i] = <<>>) =>
           Len(batchBuffer[i]) < windowSize

SqlWindowCountWitness ==
  /\ NumTransforms = 1 /\ kinds[1] = "sql_transform" /\ windowSize = 2
  /\ status[1] = "ok" /\ ~AnyFailed
  /\ Len(sent[1]) = 3 /\ sent[1][3].type = "Eos"
  /\ Len(sent[2]) = 2

\* ---- the Iceberg sink (SpecSink)
StoredSnapshots ==
  IF storeMetadata = None THEN <<>> ELSE storeMetadata[1].snapshots

ManifestFiles(manifest_path) ==
  IF manifest_path \in DOMAIN objects
    THEN {objects[manifest_path].entries[k].data_file.file_path :
            k \in DOMAIN objects[manifest_path].entries}
    ELSE {}

Referenced(path) ==
  \E id \in DOMAIN StoredSnapshots :
    path \in ManifestFiles(StoredSnapshots[id].manifest_list)

\* C5: when run has returned Ok after at least one Batch, every data file
\* it wrote is referenced by a snapshot of the stored metadata.json.
FinalCommitOnReturn ==
  (sinkPc = "ok" /\ batch_count > 0) => \A p \in written : Referenced(p)

\* C6: snapshot ids strictly increase along the stored snapshot_log.
SnapshotLogIncreasing ==
  storeMetadata # None =>
    LET log == storeMetadata[1].snapshot_log
    IN \A p \in 1..(Len(log) - 1) : log[p] < log[p + 1]

\* C7: a commit on a table whose current snapshot was k creates snapshot
\* k + 1 with parent k.
SnapshotFollowsCurrent ==
  ( /\ lastCommit = "ok"
    /\ commitBefore # None
    /\ commitBefore[1].current_snapshot_id # NoSnapshot ) =>
    LET k == commitBefore[1].current_snapshot_id
        m == storeMetadata[1]
    IN /\ m.current_snapshot_id = k + 1
       /\ m.snapshots[k + 1].parent_snapshot_id = k

\* C8: after a successful commit the stored current_snapshot_id names a
\* snapshot whose manifest is in the store, and so is every data file the
\* manifest lists.
CommitResolves ==
  lastCommit = "ok" =>
    LET m == storeMetadata[1]
        id == m.current_snapshot_id
    IN /\ id \in DOMAIN m.snapshots
       /\ m.snapshots[id].manifest_list \in DOMAIN objects
       /\ \A k \in DOMAIN objects[m.snapshots[id].manifest_list].entries :
            objects[m.snapshots[id].manifest_list].entries[k]
              .data_file.file_path \in DOMAIN objects

CommitResolvesWitness ==
  /\ lastCommit = "ok"
  /\ runs = 2
  /\ Cardinality(ManifestFiles(
       storeMetadata[1].snapshots[storeMetadata[1].current_snapshot_id]
         .manifest_list)) = 2

\* C9: when a put of a commit has failed, the stored metadata.json is the
\* one stored before the commit.
FailedCommitKeepsMetadata ==
  lastCommit \in {"manifest_put_failed", "metadata_put_failed"} =>
    storeMetadata = commitBefore

FailedCommitKeepsMetadataWitness ==
  /\ lastCommit = "metadata_put_failed"
  /\ storeMetadata # None
  /\ storeMetadata[1].current_snapshot_id = 1
  /\ table_metadata[1].current_snapshot_id = 2

\* C14: when run has ended without having received a Batch, the stored
\* metadata.json is the one the run found, absent or not.
NoBatchNoChange ==
  (sinkPc \in {"ok", "err"} /\ batch_count = 0) => storeMetadata = openedWith

\* C17: a Watermark or an Eos handled while data_files is empty writes no
\* manifest, does not rewrite metadata.json and leaves the snapshot counter
\* and the in-memory metadata as they were.
EmptyCommitIsNoOp ==
  [][((IcebergWatermark \/ IcebergEos) /\ data_files = <<>>) =>
       UNCHANGED <<objects, storeMetadata, table_metadata,
                   current_snapshot_id>>]_vars

EmptyCommitIsNoOpWitness ==
  /\ lastEvent = "Watermark" /\ lastCommit = "none" /\ data_files = <<>>
  /\ batch_count > 0
  /\ storeMetadata # None
  /\ storeMetadata[1].current_snapshot_id = 1
  /\ current_snapshot_id = 2

PathsUnder(dir) == {p \in DOMAIN objects : p[1] = dir}

\* C18: from an absent table, after the batches of two records and an Eos,
\* the stored metadata has the single snapshot 1, with no parent, operation
\* append, one added data file and two added records, and the store holds
\* one data file and one manifest.
TwoRecordsOneSnapshot ==
  ( /\ runs = 1 /\ failures = 0
    /\ sinkPc = "ok" /\ lastEvent = "Eos"
    /\ batch_count = 2 /\ delivered = 2
    /\ [k \in 1..Len(data_files) |-> data_files[k].record_count]
         = TopicBatches(2) ) =>
    /\ storeMetadata # None
    /\ DOMAIN storeMetadata[1].snapshots = {1}
    /\ storeMetadata[1].snapshots[1].parent_snapshot_id = NoSnapshot
    /\ storeMetadata[1].snapshots[1].operation = "append"
    /\ storeMetadata[1].snapshots[1].added_data_files = 1
    /\ storeMetadata[1].snapshots[1].added_records = 2
    /\ Cardinality(PathsUnder("data")) = 1
    /\ Cardinality(PathsUnder("metadata")) = 1

\* C19: the commit that lands the data file of a Batch with one field more
\* than the table schema stores a metadata.json with a new entry in schemas,
\* current_schema_id advanced to it and last_column_id one higher.
WidenedBatchEvolvesSchema ==
  ( /\ lastCommit = "ok"
    /\ \E p \in widened :
         p \in ManifestFiles(
                 storeMetadata[1].snapshots[storeMetadata[1].current_snapshot_id]
                   .manifest_list) ) =>
    /\ storeMetadata[1].current_schema_id # commitBefore[1].current_schema_id
    /\ storeMetadata[1].current_schema_id \in storeMetadata[1].schemas
    /\ storeMetadata[1].schemas # commitBefore[1].schemas
    /\ storeMetadata[1].last_column_id = commitBefore[1].last_column_id + 1

\* C27: in the stored metadata.json, current_schema_id is a key of schemas
\* and current_snapshot_id, when set, is a key of snapshots.
MetadataIdsResolve ==
  storeMetadata # None =>
    /\ storeMetadata[1].current_schema_id \in storeMetadata[1].schemas
    /\ storeMetadata[1].current_snapshot_id # NoSnapshot =>
         storeMetadata[1].current_snapshot_id
           \in DOMAIN storeMetadata[1].snapshots

MetadataIdsResolveWitness ==
  /\ storeMetadata # None
  /\ lastCommit = "ok"
  /\ storeMetadata[1].current_schema_id # 0
  /\ Cardinality(storeMetadata[1].schemas) = 2
  /\ storeMetadata[1].current_snapshot_id = 1

\* C28: a successful commit adds one entry to the stored metadata_log.
CommitLogged ==
  lastCommit = "ok" =>
    Len(storeMetadata[1].metadata_log) = Len(commitBefore[1].metadata_log) + 1

SnapshotsListing(path) ==
  {id \in DOMAIN StoredSnapshots :
     path \in ManifestFiles(StoredSnapshots[id].manifest_list)}

RECURSIVE SumAdded(_)
SumAdded(id) ==
  IF id = 0 THEN 0
  ELSE StoredSnapshots[id].added_data_files + SumAdded(id - 1)

FailedLoadKeepsMetadata ==
  [][(IcebergOpen /\ storeMetadata # None /\ failures' # failures) =>
       (sinkPc' = "err" /\ storeMetadata' = storeMetadata)]_vars

\* C39: every snapshot of a stored metadata.json is, unchanged, in every
\* metadata.json stored after it.
SnapshotsAppendOnly ==
  [][(storeMetadata # None /\ storeMetadata' # None) =>
       \A id \in DOMAIN storeMetadata[1].snapshots :
         /\ id \in DOMAIN storeMetadata'[1].snapshots
         /\ storeMetadata'[1].snapshots[id] = storeMetadata[1].snapshots[id]]_vars

\* C40: the snapshot and the manifest of a commit carry the schema id that
\* is current in the table's metadata.
CommitCarriesCurrentSchema ==
  lastCommit = "ok" =>
    LET m == storeMetadata[1]
        snapshot == m.snapshots[m.current_snapshot_id]
    IN /\ snapshot.schema_id = m.current_schema_id
       /\ objects[snapshot.manifest_list].schema_id = m.current_schema_id

\* ---- main at startup (SpecStartup)
\* C30: a spec whose sources list or sinks list does not hold exactly one
\* element is rejected with a Configuration error before any task is spawned.
SingleSourceSingleSink ==
  (Len(sources) # 1 \/ Len(sinks) # 1) =>
    /\ spawned = 0
    /\ startPc \in {"parsed", "returned"}
    /\ startResult \in {"none", "Configuration"}

\* ---- the topic source (SpecTopic, SpecMerge)
AtLeastAsWide(type, than) == promote_field_type(than, type) = type

Covers(schema, field) ==
  \E i \in 1..Len(schema) :
    /\ schema[i].name = field.name
    /\ AtLeastAsWide(schema[i].type, field.type)

\* C21: an update of the current schema keeps every field it had, with its
\* type or a type the promotion table widens it to.
SchemaNeverNarrows ==
  [][(current_schema # None /\ current_schema' # None) =>
       \A i \in 1..Len(current_schema[1]) :
         Covers(current_schema'[1], current_schema[1][i])]_vars

\* C22: the merge of the manager's existing schema with the schema inferred
\* from a record has every field of both, each at least as wide as there.
MergeCoversBoth ==
  merged # None =>
    LET existing == IF configured_schema # None THEN configured_schema[1]
                    ELSE <<>>
        inferred == infer_schema(value)
    IN /\ \A i \in 1..Len(existing) : Covers(merged[1], existing[i])
       /\ \A i \in 1..Len(inferred) : Covers(merged[1], inferred[i])

\* C23: in the batch built for a record that lacks a field of the current
\* schema, the column of that field holds null.
MissingFieldIsNull ==
  batch.result = "batch" =>
    \A i \in 1..Len(batch.schema) :
      Get(value, batch.schema[i].name) = "absent" =>
        batch.row[i].value = "null"

\* C24: every object taken from the stream before cancellation is sent
\* downstream as one single-row Batch, and the source keeps running.
ObjectGivesOneBatch ==
  [][( /\ topicStatus = "running" /\ stream # <<>>
       /\ Len(stream') < Len(stream)
       /\ ~topicCancelled /\ downOpen
       /\ Head(stream).val.kind = "object" ) =>
     ( /\ emitted' = Append(emitted, TopicBatch(Head(stream).offset))
       /\ topicStatus' = "running" )]_vars

StreamInOrder ==
  /\ \A k \in 1..Len(stream) : topicLog[stream[k].offset] \in {"json", "none"}
  /\ \A k \in 1..Len(stream) - 1 : stream[k].offset < stream[k + 1].offset
  /\ \A k \in 1..Len(emitted) :
       emitted[k].type = "Batch" =>
         /\ topicLog[emitted[k].offset] = "json"
         /\ \A j \in 1..k - 1 : emitted[j].offset < emitted[k].offset
         /\ \A j \in 1..Len(stream) : emitted[k].offset < stream[j].offset

\* C25: a payload that is not JSON reaches neither the source nor the
\* channel downstream; taking it changes nothing of the source, no message
\* is sent for it, and the JSON payloads taken after it reach the source in
\* the order of their offsets.
UnparsableIsDropped ==
  /\ []StreamInOrder
  /\ [][(Len(topicLog') > Len(topicLog) /\ topicLog'[Len(topicLog')] = "bad")
          => UNCHANGED <<stream, emitted, topicStatus, consumerAlive,
                         current_schema, value, batch>>]_vars
  /\ [][( /\ Len(topicLog') > Len(topicLog)
          /\ topicLog'[Len(topicLog')] = "json"
          /\ topicStatus = "running" ) =>
          ( /\ Len(stream') = Len(stream) + 1
            /\ stream'[Len(stream')].offset = Len(topicLog')
            /\ topicStatus' = "running" )]_vars

UnparsableIsDroppedWitness ==
  /\ topicStatus = "running"
  /\ Len(topicLog) >= 2 /\ topicLog[1] = "bad"
  /\ \E k \in 1..Len(emitted) :
       emitted[k].type = "Batch" /\ emitted[k].offset = 2

\* C35: with a configured schema, the schema of every Batch the source
\* builds has every configured field with its configured type.
BatchHasConfiguredFields ==
  (configured_schema # None /\ batch.result = "batch") =>
    \A i \in 1..Len(configured_schema[1]) :
      \E j \in 1..Len(batch.schema) :
        /\ batch.schema[j].name = configured_schema[1][i].name
        /\ batch.schema[j].type = configured_schema[1][i].type

\* ---- schema functions (SpecPromote, SpecMapping, SpecConvert,
\* ---- SpecEvolution)
\* The merge of the specification: the existing fields in their order, a
\* common field with the promoted type and nullable if either is, then the
\* fields only the new schema has, in their order.
ReferenceMerge(current, new) ==
  LET existing == IF current = None THEN <<>> ELSE current[1]
      names == {existing[i].name : i \in 1..Len(existing)}
      NewNamed(name) == SelectSeq(new, LAMBDA f : f.name = name)
  IN [i \in 1..Len(existing) |->
        IF NewNamed(existing[i].name) = <<>> THEN existing[i]
        ELSE Field(existing[i].name,
                   promote_field_type(existing[i].type,
                                      NewNamed(existing[i].name)[1].type),
                   existing[i].nullable
                     \/ NewNamed(existing[i].name)[1].nullable)]
     \o SelectSeq(new, LAMBDA f : f.name \notin names)

\* C33: merge_schemas of TopicMappingManager returns the reference merge of
\* its current schema and the new schema.
MergeIsReferenceMerge ==
  merged_schema # None =>
    merged_schema[1] = ReferenceMerge(mapping_current_schema, new_schema)

\* C34: promote_field_type gives Int64 for (Int32, Int64), Float64 for
\* (Float32, Float64), (Int32, Float64) and (Int64, Float64), and the
\* existing type for every other pair.
PromotionTable ==
  promoted_type # None =>
    promoted_type[1] =
      IF <<existing_type, new_type>> = <<"Int32", "Int64">> THEN "Int64"
      ELSE IF <<existing_type, new_type>> \in
                {<<"Float32", "Float64">>, <<"Int32", "Float64">>,
                 <<"Int64", "Float64">>} THEN "Float64"
      ELSE existing_type

PromotionTableWitness ==
  /\ promoted_type = Some("Int64")
  /\ existing_type = "Int64" /\ new_type = "Int32"

\* C37: in strict mode with auto_infer, the transform's current schema is
\* only ever replaced by a schema that keeps every field, each with its type
\* or a type the promotion table widens it to.
StrictModeRejectsIncompatible ==
  [][(strict_mode /\ evolution_auto_infer) =>
       \A i \in 1..Len(evolution_schema) :
         Covers(evolution_schema', evolution_schema[i])]_vars

ReferenceTypeName(arrow_type) ==
  CASE arrow_type = "Int32" -> "int"
    [] arrow_type = "Int64" -> "long"
    [] arrow_type = "Float32" -> "float"
    [] arrow_type = "Float64" -> "double"
    [] arrow_type = "Boolean" -> "boolean"
    [] arrow_type = "Utf8" -> "string"
    [] arrow_type = "Binary" -> "binary"
    [] arrow_type = "Date32" -> "date"
    [] arrow_type = "Timestamp" -> "timestamp"
    [] OTHER -> "string"

\* C38: the converted schema has field ids 1..K in declaration order,
\* required = ~nullable, and the type names of the reference mapping.
ConversionIsReference ==
  iceberg_schema # None =>
    /\ Len(iceberg_schema[1].fields) = Len(sink_schema)
    /\ \A k \in 1..Len(sink_schema) :
         /\ iceberg_schema[1].fields[k].id = k
         /\ iceberg_schema[1].fields[k].name = sink_schema[k].name
         /\ iceberg_schema[1].fields[k].required = ~sink_schema[k].nullable
         /\ iceberg_schema[1].fields[k].field_type =
              ReferenceTypeName(sink_schema[k].type)
====
